---------------------------- MODULE Spec2Model ----------------------------
(***************************************************************************)
(* Room / round state machine of the scramble party game.                  *)
(*                                                                         *)
(* The shared store holds one room document (rooms/<id>) and one chat log  *)
(* (chats/<id>).  Every client runs the useGameRoom hook inside a GameRoom *)
(* component: it keeps a local copy of the room document (the React state  *)
(* `gameRoom`, refreshed by the onValue subscription), and every command   *)
(* it issues is computed from that local copy and written to the store by  *)
(* path.  Delayed round advances are setTimeout callbacks that keep the    *)
(* copy of `gameRoom` they were created with.                              *)
(*                                                                         *)
(* Wall-clock time is not modelled: a countdown may expire, and a timer    *)
(* may fire, whenever the code's other conditions allow it.  Timestamps    *)
(* are drawn from a logical clock `now`.                                   *)
(***************************************************************************)
EXTENDS Integers, Sequences, FiniteSets

(***************************************************************************)
(* Bounds of the model and constants of the program.                       *)
(***************************************************************************)
NumPlayers == 3            \* clients (authenticated users) that may be in the room

MaxRounds == 3             \* largest settings.totalRounds of a modelled room

GuessRounds == 1           \* settings.totalRounds of the room of SpecGuess

DuelRounds == 2            \* settings.totalRounds of the room of SpecDuel

MaxPlayers == 8            \* settings.maxPlayers written by createRoom

RoundDuration == 60        \* settings.roundDuration written by createRoom, seconds

PointsForCorrect == 100    \* settings.pointsForCorrect written by createRoom

TotalRounds == 5           \* settings.totalRounds written by createRoom

PointsForWordGiver == 50   \* pointsForWordGiver in endRound

MaxGuesses == 1            \* guesses kept in a round's guess list before the input is closed

Capacity == 2              \* settings.maxPlayers of the room of SpecCapacity

AttemptLimit == 2          \* guesses kept in a round's guess list in SpecAttempts

MaxWordLen == 3            \* longest word passed to scrambleWord in SpecScramble

MaxDepth == 2              \* deepest recursion of the re-shuffling scrambleWord followed

MaxElapsed == 5            \* largest timeElapsed passed to calculatePoints in SpecPoints

MaxTime == 4               \* largest maxTime (round duration) passed to calculatePoints in SpecPoints

MaxBase == 4               \* largest basePoints passed to calculatePoints in SpecPoints

MaxOtherRooms == 2         \* rooms created besides the room the model follows

MaxChat == 3               \* messages in the chat log beyond which the players stop chatting

PlayerIds == 1..NumPlayers

Undefined == 0             \* an unset id / timestamp / round (null or undefined)

NoWord == <<>>             \* an unset word (null, undefined or "")

(***************************************************************************)
(* Words are sequences of letters; toLowerCase works letter by letter.     *)
(***************************************************************************)
Letters == {"a", "b", "A", "B"}

lowerLetter(ch) == IF ch = "A" THEN "a" ELSE IF ch = "B" THEN "b" ELSE ch

toLowerCase(word) == [i \in DOMAIN word |-> lowerLetter(word[i])]

upperLetter(ch) == IF ch = "a" THEN "A" ELSE IF ch = "b" THEN "B" ELSE ch

toUpperCase(word) == [i \in DOMAIN word |-> upperLetter(word[i])]

WordInputs == { <<"A", "b">> }                 \* what a word-giver may type

GuessInputs == { <<"a", "B">>, <<"b", "a">> }  \* what a guesser may type

ElapsedChoices == {5, 59}  \* seconds since roundStartTime at a guess

(***************************************************************************)
(* scrambleWord (gameUtils): Fisher-Yates shuffle, then the swap of the    *)
(* first two letters when the shuffle reproduced the lowercased word.      *)
(* `shuffled` is the outcome of the shuffle, any permutation of the        *)
(* lowercased letters.                                                     *)
(***************************************************************************)
ShuffleOutcomes(word) ==
    LET n == Len(word)
        lw == toLowerCase(word)
    IN  { [i \in 1..n |-> lw[p[i]]] :
            p \in { q \in [1..n -> 1..n] : \A i, j \in 1..n : i # j => q[i] # q[j] } }

scrambleWord(word, shuffled) ==
    IF shuffled = toLowerCase(word) /\ Len(word) > 1
    THEN [shuffled EXCEPT ![1] = shuffled[2], ![2] = shuffled[1]]
    ELSE shuffled

\* calculatePoints with the distance of timeElapsed from maxTime as multiplier
calculatePointsRebound(isCorrect, timeElapsed, maxTime, basePoints) ==
    IF ~isCorrect THEN 0
    ELSE IF timeElapsed <= maxTime
         THEN (2 * basePoints * (maxTime - timeElapsed) + maxTime) \div (2 * maxTime)
         ELSE (2 * basePoints * (timeElapsed - maxTime) + maxTime) \div (2 * maxTime)

\* calculatePoints without the lower limit 0.3 of the speed multiplier
calculatePointsUnlimited(isCorrect, timeElapsed, maxTime, basePoints) ==
    IF ~isCorrect THEN 0
    ELSE (2 * basePoints * (maxTime - timeElapsed) + maxTime) \div (2 * maxTime)

(***************************************************************************)
(* calculatePoints (gameUtils, four-argument variant):                     *)
(*   round(basePoints * max(0.3, 1 - timeElapsed / maxTime))               *)
(* in exact integer arithmetic; Math.round rounds half up.                 *)
(***************************************************************************)
calculatePoints(isCorrect, timeElapsed, maxTime, basePoints) ==
    IF ~isCorrect THEN 0
    ELSE IF 10 * (maxTime - timeElapsed) >= 3 * maxTime
         THEN (2 * basePoints * (maxTime - timeElapsed) + maxTime) \div (2 * maxTime)
         ELSE (2 * 3 * basePoints + 10) \div 20

(***************************************************************************)
(* calculatePoints (utils/scramble, two-argument variant):                 *)
(*   floor(50 + max(0, 1 - timeElapsed / maxTime) * 50)                    *)
(* and the score GameBoard.handleSubmitGuess records for a guess:          *)
(*   isCorrect ? calculatePoints(elapsed, round_duration || 30) : 0        *)
(***************************************************************************)
calculatePointsByTime(timeElapsed, maxTime) ==
    IF timeElapsed >= maxTime THEN 50
    ELSE 50 + ((50 * (maxTime - timeElapsed)) \div maxTime)

guessPoints(isCorrect, elapsed, round_duration) ==
    IF isCorrect
    THEN calculatePointsByTime(elapsed, IF round_duration = 0 THEN 30 ELSE round_duration)
    ELSE 0

(***************************************************************************)
(* The room document.  A player entry is a record at players/<id>; `in`    *)
(* says that the path holds anything at all, `full` that it holds the      *)
(* whole Player written by createRoom / joinRoom (a write by path to a     *)
(* removed player leaves an entry that is not full).                       *)
(***************************************************************************)
NoPlayer == [in |-> FALSE, full |-> FALSE, score |-> 0, isHost |-> FALSE]

NewPlayer(host) == [in |-> TRUE, full |-> TRUE, score |-> 0, isHost |-> host]

NullRoom ==
    [ id               |-> Undefined,
      hostId           |-> Undefined,
      players          |-> [p \in PlayerIds |-> NoPlayer],
      status           |-> "none",
      currentRound     |-> 0,
      currentWordGiver |-> Undefined,
      currentWord      |-> NoWord,
      scrambledWord    |-> NoWord,
      roundStartTime   |-> Undefined,
      roundEndTime     |-> Undefined,
      guesses          |-> <<>>,
      wordGiverOrder   |-> <<>>,
      hasFoundWord     |-> FALSE,
      roundWinner      |-> Undefined ]

\* createRoom writing the host's entry with isHost false
createRoomUnhosted(hostId) ==
    [ NullRoom EXCEPT
        !.id      = 1,
        !.hostId  = hostId,
        !.players = [p \in PlayerIds |-> IF p = hostId THEN NewPlayer(FALSE) ELSE NoPlayer],
        !.status  = "waiting" ]

\* createRoom: the document written by set(rooms/<newRoomId>, newRoom)
createRoom(hostId) ==
    [ NullRoom EXCEPT
        !.id      = 1,
        !.hostId  = hostId,
        !.players = [p \in PlayerIds |-> IF p = hostId THEN NewPlayer(TRUE) ELSE NoPlayer],
        !.status  = "waiting" ]

\* Object.keys(players): the keys present, in key order
RECURSIVE SortedSeq(_)
SortedSeq(S) ==
    IF S = {} THEN <<>>
    ELSE LET m == CHOOSE x \in S : \A y \in S : x <= y
         IN  <<m>> \o SortedSeq(S \ {m})

ObjectKeys(players) == SortedSeq({p \in PlayerIds : players[p].in})

\* Array.prototype.indexOf, 0-based; -1 when absent
indexOf(seq, x) ==
    IF \E i \in DOMAIN seq : seq[i] = x
    THEN (CHOOSE i \in DOMAIN seq : seq[i] = x /\ \A j \in 1..(i - 1) : seq[j] # x) - 1
    ELSE -1

VARIABLES
    room,                      \* rooms/<id> in the shared store
    chat,                      \* chats/<id> in the shared store, in push order
    now,                       \* logical clock behind Date.now()
    screen,                    \* per client: "away", "lobby", "full", "joining", "game", a step of leaveRoom, "left"
    gameRoom,                  \* per client: the hook's `gameRoom` state
    timeoutMessageSentRef,     \* per client: rounds whose "<id>-<round>-timeout" key is set
    nextRoundMessageSentRef,   \* per client: rounds whose "<id>-<round>-start" key is set
    timers,                    \* per client: pending setTimeout advances
    leaveHost,                 \* per client: newHost chosen by a leaveRoom in progress
    settings,                  \* rooms/<id>/settings, never written after createRoom
    trace,                     \* history of the store, for stating the claims
    guessLimit,                \* guesses a round's list holds before the clients stop guessing
    otherRooms,                \* the other entries of rooms, in the order of their creation
    call,                      \* gameUtils: the function under call and its arguments
    result,                    \* gameUtils: what the call has returned so far
    game_rooms,                \* relational variant: game_rooms.status of the room
    game_players,              \* relational variant: the rows of game_players of the room
    lobbyStep,                 \* relational variant, per profile: position in Lobby.joinRoom
    game_rounds,               \* relational variant: the rows of game_rounds of the room
    roomData,                  \* GameBoard, per profile: the `roomData` state
    currentRound,              \* GameBoard, per profile: the `currentRound` state
    localAttempts              \* GameRoom component, per client: the guess texts tried (upper case)

\* what the hook's operations leave alone
board == << game_rounds, roomData, currentRound >>

aside == << board, guessLimit, otherRooms, call, result, game_rooms, game_players, lobbyStep >>

\* the state of the hook and of its clients
hook == << room, chat, now, screen, gameRoom, timeoutMessageSentRef,
           nextRoundMessageSentRef, timers, leaveHost, settings, trace >>

vars == << hook, aside, localAttempts >>

Leaving == {"leaveIsHost", "leaveHostId", "leaveRoomDoc", "leaveChats"}

Mounted == {"game"} \cup Leaving   \* screens on which the GameRoom component is mounted

Rounds == 1..MaxRounds

(***************************************************************************)
(* A write by a client: applied to the store, and at once to the writer's  *)
(* own local copy (the store client raises the local event synchronously). *)
(***************************************************************************)
LocalCopy(c, old, new) ==
    IF screen[c] \in Mounted /\ old # NullRoom THEN new ELSE old

\* history kept for the claims: the values currentRound has taken in the
\* store, the net score given by endRound per round, the advance writes made
Track(newRoom, round, given, adv) ==
    [ rounds   |-> IF newRoom.currentRound # room.currentRound
                   THEN Append(trace.rounds, newRoom.currentRound)
                   ELSE trace.rounds,
      given    |-> IF round \in Rounds
                   THEN [trace.given EXCEPT ![round] = @ + given]
                   ELSE trace.given,
      advances |-> trace.advances + adv ]

Message(type, playerId, text) == [type |-> type, playerId |-> playerId, text |-> text]

(***************************************************************************)
(* Initial states.  Settings(n) is the settings record createRoom writes,  *)
(* with totalRounds = n.  InRoom(S, n): client 1 has created the room, the *)
(* clients of S have joined it and every one of them has received the      *)
(* document; the other clients never come (screen "away").                 *)
(***************************************************************************)
Settings(n) ==
    [ maxPlayers       |-> MaxPlayers,
      roundDuration    |-> RoundDuration,
      totalRounds      |-> n,
      pointsForCorrect |-> PointsForCorrect ]

JoinedRoom(S) ==
    [ createRoom(1) EXCEPT
        !.players = [p \in PlayerIds |->
                        IF p = 1 THEN NewPlayer(TRUE)
                        ELSE IF p \in S THEN NewPlayer(FALSE) ELSE NoPlayer] ]

\* no call of a gameUtils function is under way
NoCall ==
    [ fn |-> "none", word |-> <<>>, isCorrect |-> FALSE,
      timeElapsed |-> 0, maxTime |-> 1, basePoints |-> 0 ]

NoResult == [ done |-> FALSE, word |-> <<>>, points |-> 0, depth |-> 0 ]

\* nothing but the hook runs: no gameUtils call under test, no relational room
\* GameBoard's useState(null) of roomData and of currentRound
NoRoomData == [loaded |-> FALSE, current_round |-> 0]

NoRow == [round_number |-> 0, word_giver_id |-> Undefined]

\* no GameBoard is mounted and game_rounds has no row of the room
NoBoard ==
    /\ game_rounds = {}
    /\ roomData = [p \in PlayerIds |-> NoRoomData]
    /\ currentRound = [p \in PlayerIds |-> NoRow]

Idle ==
    /\ NoBoard
    /\ otherRooms = <<>>
    /\ call = NoCall
    /\ result = NoResult
    /\ game_rooms = "none"
    /\ game_players = {}
    /\ lobbyStep = [p \in PlayerIds |-> "away"]

InitLocal ==
    /\ Idle
    /\ localAttempts = [c \in PlayerIds |-> {}]
    /\ chat = <<>>
    /\ now = 1
    /\ timeoutMessageSentRef = [c \in PlayerIds |-> {}]
    /\ nextRoundMessageSentRef = [c \in PlayerIds |-> {}]
    /\ timers = [c \in PlayerIds |-> {}]
    /\ leaveHost = [c \in PlayerIds |-> Undefined]
    /\ trace = [rounds |-> <<0>>, given |-> [r \in Rounds |-> 0], advances |-> 0]

InRoomLimit(S, n, limit) ==
    /\ room = JoinedRoom(S)
    /\ settings = Settings(n)
    /\ guessLimit = limit
    /\ screen = [c \in PlayerIds |-> IF c \in S \cup {1} THEN "game" ELSE "away"]
    /\ gameRoom = [c \in PlayerIds |-> IF c \in S \cup {1} THEN room ELSE NullRoom]
    /\ InitLocal

InRoom(S, n) == InRoomLimit(S, n, MaxGuesses)

\* the host (client 1) has called createRoom and GameRoom is mounted for it;
\* every other client is in the lobby
Init ==
    /\ room = createRoom(1)
    /\ settings = Settings(MaxRounds)
    /\ guessLimit = MaxGuesses
    /\ screen = [c \in PlayerIds |-> IF c = 1 THEN "game" ELSE "lobby"]
    /\ gameRoom = [c \in PlayerIds |-> NullRoom]
    /\ InitLocal

(***************************************************************************)
(* The countdown effect of GameRoom has endRound among its dependencies,   *)
(* and endRound is a new function whenever `gameRoom` is a new object: the *)
(* effect runs again after every change of the local copy, and it sets     *)
(* localAttempts to [].  `tried` is what the handler of the step has set.  *)
(***************************************************************************)
countdownEffect(tried) ==
    localAttempts' = [c \in PlayerIds |->
                        IF gameRoom'[c] # gameRoom[c] THEN {} ELSE tried[c]]

(***************************************************************************)
(* onValue(roomRef): the subscription delivers the current document.       *)
(***************************************************************************)
onValue(c) ==
    /\ screen[c] \in Mounted
    /\ gameRoom[c] # room
    /\ gameRoom' = [gameRoom EXCEPT ![c] = room]
    /\ UNCHANGED << room, chat, now, screen, timeoutMessageSentRef,
                    nextRoundMessageSentRef, timers, leaveHost, settings, aside, trace >>
    /\ countdownEffect(localAttempts)

(***************************************************************************)
(* joinRoom: the one-shot read of rooms (room found; when it is full the   *)
(* call sets the error 'Room is full' and resolves null, and the client    *)
(* stays in the lobby: screen "full"), then the write of the new player at *)
(* players/<playerId>; onRoomJoined mounts the GameRoom component.         *)
(***************************************************************************)
InLobby == {"lobby", "full"}

\* joinRoom without its test of the player count
joinRoomReadAnyCount(c) ==
    /\ screen[c] \in InLobby
    /\ room.id # Undefined
    /\ screen' = [screen EXCEPT ![c] = "joining"]
    /\ UNCHANGED << room, chat, now, gameRoom, timeoutMessageSentRef,
                    nextRoundMessageSentRef, timers, leaveHost, settings, aside, trace >>
    /\ countdownEffect(localAttempts)

joinRoomRead(c) ==
    /\ screen[c] \in InLobby
    /\ room.id # Undefined
    /\ screen' = [screen EXCEPT ![c] =
                     IF Len(ObjectKeys(room.players)) >= settings.maxPlayers
                     THEN "full" ELSE "joining"]
    /\ UNCHANGED << room, chat, now, gameRoom, timeoutMessageSentRef,
                    nextRoundMessageSentRef, timers, leaveHost, settings, aside, trace >>
    /\ countdownEffect(localAttempts)

joinRoomWrite(c) ==
    /\ screen[c] = "joining"
    /\ room' = [room EXCEPT !.players[c] = NewPlayer(FALSE)]
    /\ screen' = [screen EXCEPT ![c] = "game"]
    /\ UNCHANGED << chat, now, gameRoom, timeoutMessageSentRef,
                    nextRoundMessageSentRef, timers, leaveHost, settings, aside, trace >>
    /\ countdownEffect(localAttempts)

(***************************************************************************)
(* startGame, reached through the Start Game button, which GameRoom        *)
(* renders when canStart && players.length >= 2 in the local copy.         *)
(***************************************************************************)
canStart(c, g) == g.players[c].isHost /\ g.status = "waiting"

startGameUpdates(r, g, t) ==
    [ r EXCEPT
        !.status           = "playing",
        !.currentRound     = 1,
        !.currentWordGiver = ObjectKeys(g.players)[1],
        !.roundStartTime   = t,
        !.guesses          = <<>>,
        !.wordGiverOrder   = ObjectKeys(g.players),
        !.hasFoundWord     = FALSE ]

startGame(c) ==
    LET g == gameRoom[c] IN
    /\ screen[c] = "game"
    /\ g # NullRoom
    /\ canStart(c, g)
    /\ Len(ObjectKeys(g.players)) >= 2
    /\ now' = now + 1
    /\ room' = startGameUpdates(room, g, now')
    /\ gameRoom' = [gameRoom EXCEPT ![c] = LocalCopy(c, g, startGameUpdates(g, g, now'))]
    /\ chat' = Append(chat, Message("system", c, "start"))
    /\ trace' = Track(room', 0, 0, 0)
    /\ UNCHANGED << screen, timeoutMessageSentRef, nextRoundMessageSentRef,
                    timers, leaveHost, settings, aside >>
    /\ countdownEffect(localAttempts)

(***************************************************************************)
(* submitWord, reached through the word form, which GameRoom renders when  *)
(* needsWord holds in the local copy.                                      *)
(***************************************************************************)
needsWord(c, g) ==
    g.status = "playing" /\ g.currentWordGiver = c /\ g.currentWord = NoWord

\* submitWord writing the word alone, the scramble being left for later
submitWordUnscrambled(r, word, shuffled, t) ==
    [ r EXCEPT
        !.currentWord    = toLowerCase(word),
        !.roundStartTime = t,
        !.guesses        = <<>>,
        !.hasFoundWord   = FALSE ]

submitWordUpdates(r, word, shuffled, t) ==
    [ r EXCEPT
        !.currentWord    = toLowerCase(word),
        !.scrambledWord  = scrambleWord(word, shuffled),
        !.roundStartTime = t,
        !.guesses        = <<>>,
        !.hasFoundWord   = FALSE ]

submitWord(c, word, shuffled) ==
    LET g == gameRoom[c] IN
    /\ screen[c] = "game"
    /\ g # NullRoom
    /\ needsWord(c, g)
    /\ now' = now + 1
    /\ room' = submitWordUpdates(room, word, shuffled, now')
    /\ gameRoom' = [gameRoom EXCEPT ![c] = LocalCopy(c, g, submitWordUpdates(g, word, shuffled, now'))]
    /\ chat' = Append(chat, Message("system", c, "word"))
    /\ trace' = Track(room', 0, 0, 0)
    /\ UNCHANGED << screen, timeoutMessageSentRef, nextRoundMessageSentRef,
                    timers, leaveHost, settings, aside >>
    /\ countdownEffect(localAttempts)

(***************************************************************************)
(* The delayed advance created by submitGuess and endRound: the callback   *)
(* keeps the `gameRoom` of the call, so it is determined by that copy's    *)
(* round and by the giver nextRound computes from it.                      *)
(***************************************************************************)
\* a faulty rotation, to test C12 against: the giver after next
nextWordGiverSkipsOne(g) ==
    LET playerIds == IF g.wordGiverOrder # <<>> THEN g.wordGiverOrder
                     ELSE ObjectKeys(g.players)
        nextGiverIndex == (indexOf(playerIds, g.currentWordGiver) + 2) % Len(playerIds)
    IN  IF playerIds = <<>> THEN Undefined ELSE playerIds[nextGiverIndex + 1]

nextWordGiver(g) ==
    LET playerIds == IF g.wordGiverOrder # <<>> THEN g.wordGiverOrder
                     ELSE ObjectKeys(g.players)
        nextGiverIndex == (indexOf(playerIds, g.currentWordGiver) + 1) % Len(playerIds)
    IN  IF playerIds = <<>> THEN Undefined ELSE playerIds[nextGiverIndex + 1]

Timer(g) == [round |-> g.currentRound, next |-> nextWordGiver(g)]

(***************************************************************************)
(* submitGuess, reached through the guess input, which every GameRoom      *)
(* variant offers to a non-giver while the local copy is playing, has a    *)
(* word and has hasFoundWord = false.                                      *)
(***************************************************************************)
canGuess(c, g) ==
    /\ g.status = "playing"
    /\ g.currentWord # NoWord
    /\ g.currentWordGiver # c
    /\ ~g.hasFoundWord
    /\ Len(g.guesses) < guessLimit

Guess(playerId, guess, isCorrect, points) ==
    [playerId |-> playerId, guess |-> guess, isCorrect |-> isCorrect, points |-> points]

timeExtension(word) == IF Len(word) <= 5 THEN 30 ELSE IF Len(word) <= 8 THEN 45 ELSE 60

creditsGuess(g, isCorrect) == isCorrect /\ ~g.hasFoundWord

submitGuessUpdates(r, g, c, guess, isCorrect, points, t) ==
    LET logged == [r EXCEPT !.guesses = Append(g.guesses, Guess(c, guess, isCorrect, points))]
    IN  IF creditsGuess(g, isCorrect)
        THEN [ logged EXCEPT
                 !.players[c]     = [@ EXCEPT !.in = TRUE, !.score = g.players[c].score + points],
                 !.roundWinner    = c,
                 !.hasFoundWord   = TRUE,
                 !.roundEndTime   = t,
                 !.roundStartTime = IF g.roundStartTime # Undefined
                                    THEN g.roundStartTime ELSE t ]
        ELSE logged

submitGuessCall(c, guess, timeElapsed) ==
    LET g == gameRoom[c]
        isCorrect == toLowerCase(guess) = toLowerCase(g.currentWord)
        points == IF isCorrect
                  THEN calculatePoints(TRUE, timeElapsed, settings.roundDuration, settings.pointsForCorrect)
                  ELSE 0
    IN
    /\ screen[c] = "game"
    /\ g # NullRoom
    /\ canGuess(c, g)
    /\ Len(guess) = Len(g.currentWord)
    /\ now' = now + 1
    /\ room' = submitGuessUpdates(room, g, c, guess, isCorrect, points, now')
    /\ gameRoom' = [gameRoom EXCEPT
                      ![c] = LocalCopy(c, g, submitGuessUpdates(g, g, c, guess, isCorrect, points, now'))]
    /\ chat' = Append(chat,
                 IF creditsGuess(g, isCorrect) THEN Message("correct", c, "found")
                 ELSE IF isCorrect THEN Message("wrong", c, "also")
                 ELSE Message("wrong", c, "wrong"))
    /\ timers' = IF creditsGuess(g, isCorrect)
                 THEN [timers EXCEPT ![c] = @ \cup {Timer(g)}]
                 ELSE timers
    /\ trace' = Track(room', 0, 0, 0)
    /\ UNCHANGED << screen, timeoutMessageSentRef, nextRoundMessageSentRef, leaveHost, settings, aside >>

submitGuess(c, guess, timeElapsed) ==
    /\ submitGuessCall(c, guess, timeElapsed)
    /\ countdownEffect(localAttempts)

(***************************************************************************)
(* handleGuessSubmit of the GameRoom with the letter boxes: a text that is *)
(* not in localAttempts is added to it and submitted.  (A text that is in  *)
(* it only clears the input.)                                              *)
(***************************************************************************)
handleGuessSubmit(c, guess, timeElapsed) ==
    /\ toUpperCase(guess) \notin localAttempts[c]
    /\ submitGuessCall(c, guess, timeElapsed)
    /\ countdownEffect([localAttempts EXCEPT ![c] = @ \cup {toUpperCase(guess)}])

(***************************************************************************)
(* endRound(false), called by the countdown interval of GameRoom when the  *)
(* local copy has a word, is not in the extension after a found word, and  *)
(* the round duration has elapsed.  The effect re-runs on every change of  *)
(* `gameRoom` and of roundEnded and resets roundEnded each time, so the    *)
(* call repeats until the per-round key of timeoutMessageSentRef stops it. *)
(***************************************************************************)
countdownExpired(g) ==
    /\ g.roundStartTime # Undefined
    /\ ~(g.hasFoundWord /\ g.roundEndTime # Undefined)
    /\ g.currentWord # NoWord

endRoundUpdates(r, g) ==
    [ r EXCEPT
        !.players[g.currentWordGiver] =
            [@ EXCEPT !.in = TRUE,
                      !.score = g.players[g.currentWordGiver].score + PointsForWordGiver] ]

\* endRound without the check of its per-round key
endRoundAgain(c) ==
    LET g == gameRoom[c] IN
    /\ screen[c] = "game"
    /\ g # NullRoom
    /\ countdownExpired(g)
    /\ g.currentWordGiver # Undefined
    /\ timeoutMessageSentRef' = [timeoutMessageSentRef EXCEPT ![c] = @ \cup {g.currentRound}]
    /\ room' = endRoundUpdates(room, g)
    /\ gameRoom' = [gameRoom EXCEPT ![c] = LocalCopy(c, g, endRoundUpdates(g, g))]
    /\ chat' = Append(chat, Message("system", c, "timeout"))
    /\ timers' = [timers EXCEPT ![c] = @ \cup {Timer(g)}]
    /\ trace' = Track(room', g.currentRound,
                      room'.players[g.currentWordGiver].score
                        - room.players[g.currentWordGiver].score, 0)
    /\ UNCHANGED << now, screen, nextRoundMessageSentRef, leaveHost, settings, aside >>
    /\ countdownEffect(localAttempts)

endRound(c) ==
    LET g == gameRoom[c] IN
    /\ screen[c] = "game"
    /\ g # NullRoom
    /\ countdownExpired(g)
    /\ g.currentWordGiver # Undefined
    /\ g.currentRound \notin timeoutMessageSentRef[c]
    /\ timeoutMessageSentRef' = [timeoutMessageSentRef EXCEPT ![c] = @ \cup {g.currentRound}]
    /\ room' = endRoundUpdates(room, g)
    /\ gameRoom' = [gameRoom EXCEPT ![c] = LocalCopy(c, g, endRoundUpdates(g, g))]
    /\ chat' = Append(chat, Message("system", c, "timeout"))
    /\ timers' = [timers EXCEPT ![c] = @ \cup {Timer(g)}]
    /\ trace' = Track(room', g.currentRound,
                      room'.players[g.currentWordGiver].score
                        - room.players[g.currentWordGiver].score, 0)
    /\ UNCHANGED << now, screen, nextRoundMessageSentRef, leaveHost, settings, aside >>
    /\ countdownEffect(localAttempts)

(***************************************************************************)
(* The setTimeout callback of submitGuess / endRound: finish the game when *)
(* the captured round is the last one, otherwise nextRound on the captured *)
(* copy, guarded by the per-round key of nextRoundMessageSentRef.          *)
(***************************************************************************)
finishUpdates(r) == [r EXCEPT !.status = "finished"]

\* nextRound leaving the found-flag as it is
nextRoundKeepsFound(r, timer, t) ==
    [ r EXCEPT
        !.currentRound     = timer.round + 1,
        !.currentWordGiver = timer.next,
        !.currentWord      = NoWord,
        !.scrambledWord    = NoWord,
        !.roundStartTime   = t,
        !.guesses          = <<>>,
        !.roundWinner      = Undefined,
        !.roundEndTime     = Undefined ]

nextRoundUpdates(r, timer, t) ==
    [ r EXCEPT
        !.currentRound     = timer.round + 1,
        !.currentWordGiver = timer.next,
        !.currentWord      = NoWord,
        !.scrambledWord    = NoWord,
        !.roundStartTime   = t,
        !.guesses          = <<>>,
        !.roundWinner      = Undefined,
        !.hasFoundWord     = FALSE,
        !.roundEndTime     = Undefined ]

isLastRound(timer) == timer.round >= settings.totalRounds

finishGame(c, timer) ==
    /\ timer \in timers[c]
    /\ isLastRound(timer)
    /\ timers' = [timers EXCEPT ![c] = @ \ {timer}]
    /\ room' = finishUpdates(room)
    /\ gameRoom' = [gameRoom EXCEPT ![c] = LocalCopy(c, @, finishUpdates(@))]
    /\ trace' = Track(room', 0, 0, 1)
    /\ UNCHANGED << chat, now, screen, timeoutMessageSentRef,
                    nextRoundMessageSentRef, leaveHost, settings, aside >>
    /\ countdownEffect(localAttempts)

nextRound(c, timer) ==
    /\ timer \in timers[c]
    /\ ~isLastRound(timer)
    /\ timers' = [timers EXCEPT ![c] = @ \ {timer}]
    /\ IF (timer.round + 1) \in nextRoundMessageSentRef[c]
       THEN UNCHANGED << room, chat, now, gameRoom, nextRoundMessageSentRef, trace >>
       ELSE /\ nextRoundMessageSentRef' =
                  [nextRoundMessageSentRef EXCEPT ![c] = @ \cup {timer.round + 1}]
            /\ now' = now + 1
            /\ room' = nextRoundUpdates(room, timer, now')
            /\ gameRoom' = [gameRoom EXCEPT ![c] = LocalCopy(c, @, nextRoundUpdates(@, timer, now'))]
            /\ chat' = Append(chat, Message("system", c, "round"))
            /\ trace' = Track(room', 0, 0, 1)
    /\ UNCHANGED << screen, timeoutMessageSentRef, leaveHost, settings, aside >>
    /\ countdownEffect(localAttempts)

(***************************************************************************)
(* leaveRoom, one step per awaited store operation.  The whole call works  *)
(* on the `gameRoom` of its start: remove players/<userId>; then, when     *)
(* that copy shows the caller as host, either hand the host flag and       *)
(* hostId to the first remaining player of the copy, or remove the room    *)
(* and its chat log.  handleLeaveRoom unmounts GameRoom afterwards.        *)
(* An entry that is not full has no id: the transfer to it writes to       *)
(* players/undefined (a key outside the model) and the hostId update is    *)
(* rejected, so the call fails and GameRoom stays mounted.                 *)
(***************************************************************************)
remainingPlayers(g, userId) ==
    SelectSeq(ObjectKeys(g.players), LAMBDA p : ~g.players[p].full \/ p # userId)

newHostId(g, userId) ==
    LET remaining == remainingPlayers(g, userId)
    IN  IF g.players[remaining[1]].full THEN remaining[1] ELSE Undefined

Unmount(c) ==
    /\ screen' = [screen EXCEPT ![c] = "left"]
    /\ gameRoom' = [gameRoom EXCEPT ![c] = NullRoom]

leaveRoom(c) ==
    LET g == gameRoom[c] IN
    /\ screen[c] = "game"
    /\ g # NullRoom
    /\ room' = [room EXCEPT !.players[c] = NoPlayer]
    /\ IF ~g.players[c].isHost
       THEN /\ Unmount(c)
            /\ UNCHANGED leaveHost
       ELSE /\ gameRoom' = [gameRoom EXCEPT ![c] = [g EXCEPT !.players[c] = NoPlayer]]
            /\ IF remainingPlayers(g, c) # <<>>
               THEN /\ leaveHost' = [leaveHost EXCEPT ![c] = newHostId(g, c)]
                    /\ screen' = [screen EXCEPT ![c] = "leaveIsHost"]
               ELSE /\ screen' = [screen EXCEPT ![c] = "leaveRoomDoc"]
                    /\ UNCHANGED leaveHost
    /\ UNCHANGED << chat, now, timeoutMessageSentRef, nextRoundMessageSentRef,
                    timers, settings, aside, trace >>
    /\ countdownEffect(localAttempts)

leaveRoomIsHost(c) ==
    /\ screen[c] = "leaveIsHost"
    /\ screen' = [screen EXCEPT ![c] = "leaveHostId"]
    /\ IF leaveHost[c] # Undefined
       THEN /\ room' = [room EXCEPT !.players[leaveHost[c]] = [@ EXCEPT !.in = TRUE, !.isHost = TRUE]]
            /\ gameRoom' = [gameRoom EXCEPT
                              ![c] = [@ EXCEPT !.players[leaveHost[c]] = [@ EXCEPT !.in = TRUE, !.isHost = TRUE]]]
       ELSE UNCHANGED << room, gameRoom >>
    /\ UNCHANGED << chat, now, timeoutMessageSentRef, nextRoundMessageSentRef,
                    timers, leaveHost, settings, aside, trace >>
    /\ countdownEffect(localAttempts)

leaveRoomHostId(c) ==
    /\ screen[c] = "leaveHostId"
    /\ IF leaveHost[c] # Undefined
       THEN /\ room' = [room EXCEPT !.hostId = leaveHost[c]]
            /\ Unmount(c)
       ELSE /\ screen' = [screen EXCEPT ![c] = "game"]
            /\ UNCHANGED << room, gameRoom >>
    /\ leaveHost' = [leaveHost EXCEPT ![c] = Undefined]
    /\ UNCHANGED << chat, now, timeoutMessageSentRef, nextRoundMessageSentRef,
                    timers, settings, aside, trace >>
    /\ countdownEffect(localAttempts)

leaveRoomRemoveRoom(c) ==
    /\ screen[c] = "leaveRoomDoc"
    /\ room' = NullRoom
    /\ gameRoom' = [gameRoom EXCEPT ![c] = NullRoom]
    /\ screen' = [screen EXCEPT ![c] = "leaveChats"]
    /\ trace' = Track(room', 0, 0, 0)
    /\ UNCHANGED << chat, now, timeoutMessageSentRef, nextRoundMessageSentRef,
                    timers, leaveHost, settings, aside >>
    /\ countdownEffect(localAttempts)

\* leaveRoom removing the newest message of the log instead of the log
leaveRoomRemoveLastChat(c) ==
    /\ screen[c] = "leaveChats"
    /\ chat' = SubSeq(chat, 1, Len(chat) - 1)
    /\ Unmount(c)
    /\ UNCHANGED << room, now, timeoutMessageSentRef, nextRoundMessageSentRef,
                    timers, leaveHost, settings, aside, trace >>
    /\ countdownEffect(localAttempts)

leaveRoomRemoveChats(c) ==
    /\ screen[c] = "leaveChats"
    /\ chat' = <<>>
    /\ Unmount(c)
    /\ UNCHANGED << room, now, timeoutMessageSentRef, nextRoundMessageSentRef,
                    timers, leaveHost, settings, aside, trace >>
    /\ countdownEffect(localAttempts)

(***************************************************************************)
(* sendChatMessage('chat', ...), reached through the chat input of the     *)
(* GameRoom: push(chats/<id>, newMessage).                                 *)
(***************************************************************************)
sendChatMessage(c) ==
    /\ screen[c] = "game"
    /\ gameRoom[c] # NullRoom
    /\ Len(chat) < MaxChat
    /\ chat' = Append(chat, Message("chat", c, "chat"))
    /\ UNCHANGED << room, now, screen, gameRoom, timeoutMessageSentRef, nextRoundMessageSentRef,
                    timers, leaveHost, settings, aside, trace >>
    /\ countdownEffect(localAttempts)

(***************************************************************************)
(* createRoom by a client in the lobby.  The model follows the room of     *)
(* key 1; push(rooms).key is a new key, so the call writes another entry   *)
(* of rooms, with the settings of the code, and onRoomJoined mounts the    *)
(* GameRoom of that room: the client is away from the room of key 1.       *)
(***************************************************************************)
newRoomSettings ==
    [ maxPlayers       |-> MaxPlayers,
      roundDuration    |-> RoundDuration,
      totalRounds      |-> TotalRounds,
      pointsForCorrect |-> PointsForCorrect ]

newRoomId == Len(otherRooms) + 2

createRoomCall(c) ==
    /\ screen[c] \in InLobby
    /\ Len(otherRooms) < MaxOtherRooms
    /\ otherRooms' = Append(otherRooms,
                            [ doc      |-> [createRoom(c) EXCEPT !.id = newRoomId],
                              settings |-> newRoomSettings ])
    /\ screen' = [screen EXCEPT ![c] = "away"]
    /\ UNCHANGED << room, chat, now, gameRoom, timeoutMessageSentRef, nextRoundMessageSentRef,
                    timers, leaveHost, settings, trace, localAttempts,
                    board, guessLimit, call, result, game_rooms, game_players, lobbyStep >>

(***************************************************************************)
(* The page is loaded again: App starts from its initial state, with       *)
(* currentRoomId null, so the client is back in the lobby; its timers and  *)
(* refs are gone.  Nothing is written: its player entry stays in the room. *)
(***************************************************************************)
reload(c) ==
    /\ screen[c] = "game"
    /\ screen' = [screen EXCEPT ![c] = "lobby"]
    /\ gameRoom' = [gameRoom EXCEPT ![c] = NullRoom]
    /\ timers' = [timers EXCEPT ![c] = {}]
    /\ timeoutMessageSentRef' = [timeoutMessageSentRef EXCEPT ![c] = {}]
    /\ nextRoundMessageSentRef' = [nextRoundMessageSentRef EXCEPT ![c] = {}]
    /\ UNCHANGED << room, chat, now, leaveHost, settings, aside, trace >>
    /\ countdownEffect(localAttempts)

(***************************************************************************)
(* The relational variant of the lobby.  game_rooms is the status of the   *)
(* one room ("none", "deleted": no such row), whose host_id is profile 1;  *)
(* game_players is the set of its rows; lobbyStep[p] is where profile p's  *)
(* page is: in the Lobby ("lobby", or after a failed joinRoom "notFound" / *)
(* "failed"), inside Lobby.joinRoom ("room": the room row is selected,     *)
(* "insert": no existing row was found), in the WaitingRoom ("waiting",    *)
(* "deleteRoom" while the host leaves) or in the GameBoard ("playing").    *)
(***************************************************************************)
HostProfile == 1

Row(p, ready) == [player_id |-> p, score |-> 0, is_ready |-> ready]

RowsOf(p) == {row \in game_players : row.player_id = p}

LobbyScreens == {"lobby", "notFound", "failed"}

\* Lobby.createRoom has run for the host profile
InitRelational ==
    /\ NoBoard
    /\ game_rooms = "waiting"
    /\ game_players = {Row(HostProfile, TRUE)}
    /\ lobbyStep = [p \in PlayerIds |-> IF p = HostProfile THEN "waiting" ELSE "lobby"]

\* Lobby.createRoom: insert into game_rooms (status 'waiting', host_id), then
\* insert the host's row (is_ready true) into game_players.  The model
\* follows the first room of the host profile (game_rooms is "none" before
\* it is inserted, "deleted" after the host has deleted it); any other room
\* created has another id and takes its creator away from this one
lobbyCreateRoom(p) ==
    /\ lobbyStep[p] \in LobbyScreens
    /\ IF p = HostProfile /\ game_rooms = "none"
       THEN /\ game_rooms' = "waiting"
            /\ lobbyStep' = [lobbyStep EXCEPT ![p] = "createPlayer"]
       ELSE /\ lobbyStep' = [lobbyStep EXCEPT ![p] = "away"]
            /\ UNCHANGED game_rooms
    /\ UNCHANGED << hook, localAttempts, board, guessLimit, otherRooms, call, result, game_players >>

lobbyCreatePlayer(p) ==
    /\ lobbyStep[p] = "createPlayer"
    /\ game_players' = game_players \cup {Row(p, TRUE)}
    /\ lobbyStep' = [lobbyStep EXCEPT ![p] = "waiting"]
    /\ UNCHANGED << hook, localAttempts, board, guessLimit, otherRooms, call, result, game_rooms >>

\* the room code is generated inside createRoom and shown by the WaitingRoom,
\* which the host reaches when createRoom is through: until then nobody has
\* the code to type
RoomCodeShown == lobbyStep[HostProfile] # "createPlayer"

\* select from game_rooms where room_code = code and status = 'waiting'
lobbyJoinRoom(p) ==
    /\ lobbyStep[p] \in LobbyScreens
    /\ lobbyStep' = [lobbyStep EXCEPT ![p] =
                        IF game_rooms = "waiting" /\ RoomCodeShown THEN "room" ELSE "notFound"]
    /\ UNCHANGED << hook, localAttempts, board, guessLimit, otherRooms, call, result, game_rooms, game_players >>

\* joinRoom without its lookup of an existing row: it goes on to the insert
lobbyJoinExistingIgnored(p) ==
    /\ lobbyStep[p] = "room"
    /\ lobbyStep' = [lobbyStep EXCEPT ![p] = "insert"]
    /\ UNCHANGED << hook, localAttempts, board, guessLimit, otherRooms, call, result, game_rooms, game_players >>

\* select from game_players the row of this profile; when there is one,
\* onGameStart(room.id) and return
lobbyJoinExisting(p) ==
    /\ lobbyStep[p] = "room"
    /\ lobbyStep' = [lobbyStep EXCEPT ![p] =
                        IF RowsOf(p) # {}
                        THEN (IF game_rooms = "playing" THEN "playing" ELSE "waiting")
                        ELSE "insert"]
    /\ UNCHANGED << hook, localAttempts, board, guessLimit, otherRooms, call, result, game_rooms, game_players >>

\* insert into game_players; UNIQUE(room_id, player_id) and the foreign key
\* on room_id make the insert fail, and joinRoom then reports the failure
lobbyJoinInsert(p) ==
    /\ lobbyStep[p] = "insert"
    /\ IF game_rooms \in {"none", "deleted"} \/ RowsOf(p) # {}
       THEN /\ lobbyStep' = [lobbyStep EXCEPT ![p] = "failed"]
            /\ UNCHANGED game_players
       ELSE /\ game_players' = game_players \cup {Row(p, FALSE)}
            /\ lobbyStep' = [lobbyStep EXCEPT ![p] =
                                IF game_rooms = "playing" THEN "playing" ELSE "waiting"]
    /\ UNCHANGED << hook, localAttempts, board, guessLimit, otherRooms, call, result, game_rooms >>

\* WaitingRoom.toggleReady: update is_ready = !myReady on the profile's row;
\* myReady is the component's copy of the flag, which may lag behind the row
toggleReady(p, myReady) ==
    /\ lobbyStep[p] = "waiting"
    /\ game_players' = {[row EXCEPT !.is_ready = IF row.player_id = p THEN ~myReady ELSE @] :
                            row \in game_players}
    /\ game_players' # game_players
    /\ UNCHANGED << hook, localAttempts, board, guessLimit, otherRooms, call, result, game_rooms, lobbyStep >>

\* WaitingRoom.handleStartGame, by the host with two players or more listed
handleStartGame(p) ==
    /\ lobbyStep[p] = "waiting"
    /\ p = HostProfile
    /\ Cardinality(game_players) >= 2
    /\ game_rooms = "waiting"
    /\ game_rooms' = "playing"
    /\ lobbyStep' = [lobbyStep EXCEPT ![p] = "playing"]
    /\ UNCHANGED << hook, localAttempts, board, guessLimit, otherRooms, call, result, game_players >>

\* WaitingRoom.handleLeave: delete the profile's row, then, for the host,
\* the room (its rows go with it: ON DELETE CASCADE)
handleLeave(p) ==
    /\ lobbyStep[p] = "waiting"
    /\ game_players' = game_players \ RowsOf(p)
    /\ lobbyStep' = [lobbyStep EXCEPT ![p] = IF p = HostProfile THEN "deleteRoom" ELSE "lobby"]
    /\ UNCHANGED << hook, localAttempts, board, guessLimit, otherRooms, call, result, game_rooms >>

handleLeaveDeleteRoom(p) ==
    /\ lobbyStep[p] = "deleteRoom"
    /\ game_rooms' = "deleted"
    /\ game_players' = {}
    /\ lobbyStep' = [lobbyStep EXCEPT ![p] = "lobby"]
    /\ UNCHANGED << hook, localAttempts, board, guessLimit, otherRooms, call, result >>

\* the page is loaded again: gameState starts as 'lobby'
reloadPage(p) ==
    /\ lobbyStep[p] \in {"waiting", "playing"}
    /\ lobbyStep' = [lobbyStep EXCEPT ![p] = "lobby"]
    /\ roomData' = [roomData EXCEPT ![p] = NoRoomData]
    /\ currentRound' = [currentRound EXCEPT ![p] = NoRow]
    /\ UNCHANGED << hook, localAttempts, game_rounds, guessLimit, otherRooms, call, result,
                    game_rooms, game_players >>

\* App's subscription to the room's row: a profile in the WaitingRoom goes to
\* the GameBoard when the row's status has become 'playing'
roomStatusPlaying(p) ==
    /\ lobbyStep[p] = "waiting"
    /\ game_rooms = "playing"
    /\ lobbyStep' = [lobbyStep EXCEPT ![p] = "playing"]
    /\ UNCHANGED << hook, localAttempts, board, guessLimit, otherRooms, call, result,
                    game_rooms, game_players >>

(***************************************************************************)
(* The GameBoard of the relational variant.  Its effect of lines 51-104    *)
(* has [roomId] as dependencies: it runs once per mount, so loadGameState  *)
(* and the subscription callbacks are the functions of the render that     *)
(* created the effect, and what they read of the component's state is that *)
(* render's: roomData null and players [].  `render` is that reading.      *)
(* current_round is 1 from handleStartGame on (and 0 before); nothing in   *)
(* the model changes it afterwards.                                        *)
(***************************************************************************)
FirstRender == [roomData |-> NoRoomData, players |-> <<>>]

current_round == IF game_rooms = "playing" THEN 1 ELSE 0

RowOfRound(n) == CHOOSE row \in game_rounds : row.round_number = n

\* insert into game_rounds; UNIQUE(room_id, round_number) makes a second
\* insert for the round fail, and so does players[NaN].id for an empty
\* player list: both are caught and logged
createNewRound(p, render) ==
    LET n == render.roomData.current_round IN
    IF \/ ~render.roomData.loaded
       \/ render.players = <<>>
       \/ \E row \in game_rounds : row.round_number = n
    THEN UNCHANGED << game_rounds, currentRound >>
    ELSE LET row == [ round_number  |-> n,
                      word_giver_id |-> render.players[((n - 1) % Len(render.players)) + 1] ]
         IN  /\ game_rounds' = game_rounds \cup {row}
             /\ currentRound' = [currentRound EXCEPT ![p] = row]

loadCurrentRound(p, render) ==
    LET n == render.roomData.current_round IN
    IF ~render.roomData.loaded
    THEN UNCHANGED << game_rounds, currentRound >>
    ELSE IF \E row \in game_rounds : row.round_number = n
         THEN /\ currentRound' = [currentRound EXCEPT ![p] = RowOfRound(n)]
              /\ UNCHANGED game_rounds
         ELSE createNewRound(p, render)

\* loadGameState, on mount and on every change of the room's row: select the
\* row, setRoomData, loadPlayers, loadCurrentRound
loadGameState(p) ==
    /\ lobbyStep[p] = "playing"
    /\ game_rooms \in {"waiting", "playing"}
    /\ roomData' = [roomData EXCEPT ![p] = [loaded |-> TRUE, current_round |-> current_round]]
    /\ loadCurrentRound(p, FirstRender)
    /\ UNCHANGED << hook, localAttempts, guessLimit, otherRooms, call, result,
                    game_rooms, game_players, lobbyStep >>

(***************************************************************************)
(* Next-state relations.  Membership steps, game steps, and the whole.     *)
(***************************************************************************)
Membership ==
    \/ \E c \in PlayerIds : joinRoomRead(c)
    \/ \E c \in PlayerIds : joinRoomWrite(c)
    \/ \E c \in PlayerIds : leaveRoom(c)
    \/ \E c \in PlayerIds : leaveRoomIsHost(c)
    \/ \E c \in PlayerIds : leaveRoomHostId(c)
    \/ \E c \in PlayerIds : leaveRoomRemoveRoom(c)
    \/ \E c \in PlayerIds : leaveRoomRemoveChats(c)

Deliveries == \E c \in PlayerIds : onValue(c)

Starts == \E c \in PlayerIds : startGame(c)

Words ==
    \E c \in PlayerIds, word \in WordInputs :
        \E shuffled \in ShuffleOutcomes(word) : submitWord(c, word, shuffled)

Guesses ==
    \E c \in PlayerIds, guess \in GuessInputs, timeElapsed \in ElapsedChoices :
        submitGuess(c, guess, timeElapsed)

Timeouts == \E c \in PlayerIds : endRound(c)

Finishes == \E c \in PlayerIds : \E timer \in timers[c] : finishGame(c, timer)

Advances == \E c \in PlayerIds : \E timer \in timers[c] : nextRound(c, timer)

Next ==
    \/ Membership
    \/ Deliveries
    \/ Starts
    \/ Words
    \/ Guesses
    \/ Timeouts
    \/ Finishes
    \/ Advances

Spec == Init /\ [][Next]_vars

\* the waiting room of a room that holds at most Capacity players
InitCapacity ==
    /\ room = createRoom(1)
    /\ settings = [Settings(MaxRounds) EXCEPT !.maxPlayers = Capacity]
    /\ guessLimit = MaxGuesses
    /\ screen = [c \in PlayerIds |-> IF c = 1 THEN "game" ELSE "lobby"]
    /\ gameRoom = [c \in PlayerIds |-> NullRoom]
    /\ InitLocal

\* the waiting room: clients join, leave and the host starts the game
NextLobby == Membership \/ Deliveries \/ Starts

SpecLobby == Init /\ [][NextLobby]_vars

SpecCapacity == InitCapacity /\ [][NextLobby]_vars

\* members who load the page again and join the room they are in, in the hook
\* variant (first disjunct of InitRejoin) and in the relational variant
Reloads == \E c \in PlayerIds : reload(c)

Relational ==
    \/ \E p \in PlayerIds : lobbyJoinRoom(p)
    \/ \E p \in PlayerIds : lobbyJoinExisting(p)
    \/ \E p \in PlayerIds : lobbyJoinInsert(p)
    \/ \E p \in PlayerIds, myReady \in BOOLEAN : toggleReady(p, myReady)
    \/ \E p \in PlayerIds : handleStartGame(p)
    \/ \E p \in PlayerIds : handleLeave(p)
    \/ \E p \in PlayerIds : handleLeaveDeleteRoom(p)
    \/ \E p \in PlayerIds : reloadPage(p)

InitRejoin ==
    \/ Init
    \/ /\ room = NullRoom
       /\ settings = Settings(MaxRounds)
       /\ guessLimit = MaxGuesses
       /\ screen = [c \in PlayerIds |-> "away"]
       /\ gameRoom = [c \in PlayerIds |-> NullRoom]
       /\ chat = <<>>
       /\ now = 1
       /\ timeoutMessageSentRef = [c \in PlayerIds |-> {}]
       /\ nextRoundMessageSentRef = [c \in PlayerIds |-> {}]
       /\ timers = [c \in PlayerIds |-> {}]
       /\ leaveHost = [c \in PlayerIds |-> Undefined]
       /\ trace = [rounds |-> <<0>>, given |-> [r \in Rounds |-> 0], advances |-> 0]
       /\ localAttempts = [c \in PlayerIds |-> {}]
       /\ otherRooms = <<>>
       /\ call = NoCall
       /\ result = NoResult
       /\ InitRelational

NextRejoin == NextLobby \/ Reloads \/ Relational

\* the relational variant from the waiting room into the GameBoard
Board ==
    \/ \E p \in PlayerIds : roomStatusPlaying(p)
    \/ \E p \in PlayerIds : loadGameState(p)

NextBoard == NextRejoin \/ Board

SpecRejoin == InitRejoin /\ [][NextRejoin]_vars

SpecBoard == InitRejoin /\ [][NextBoard]_vars

\* a game of two clients in which nobody enters a guess: every round ends
\* by the countdown
NextTimeout == Deliveries \/ Starts \/ Words \/ Timeouts \/ Finishes \/ Advances

SpecTimeout == InRoom({2}, MaxRounds) /\ [][NextTimeout]_vars

\* a game of three clients and one round, with guesses and countdowns (the
\* delayed advance of a last round always finishes the game)
NextGuess == Deliveries \/ Starts \/ Words \/ Guesses \/ Timeouts \/ Finishes

SpecGuess == InRoom({2, 3}, GuessRounds) /\ [][NextGuess]_vars

(***************************************************************************)
(* gameUtils called on its own: no room exists and no client is there.     *)
(* call holds the function under call and its arguments, result what it    *)
(* has returned (done) and, for the re-shuffling scrambleWord, how deep     *)
(* its recursion is.                                                       *)
(***************************************************************************)
NoRoomYet ==
    /\ room = NullRoom
    /\ settings = Settings(MaxRounds)
    /\ guessLimit = MaxGuesses
    /\ screen = [c \in PlayerIds |-> "away"]
    /\ gameRoom = [c \in PlayerIds |-> NullRoom]
    /\ InitLocal

ScrambleInputs ==
    UNION { [1..n -> Letters] : n \in 1..MaxWordLen }

\* scrambleWord, re-shuffling variant: one pass of the function body; when
\* the shuffle reproduced the lowercased word it calls itself
scrambleWordAgain(word, shuffled) == shuffled = toLowerCase(word) /\ Len(word) > 1

callScrambleWord(fn, word) ==
    /\ call = NoCall
    /\ call' = [NoCall EXCEPT !.fn = fn, !.word = word]
    /\ result' = NoResult
    /\ UNCHANGED << hook, localAttempts, board, guessLimit, otherRooms, game_rooms, game_players, lobbyStep >>

scrambleWordSwap(shuffled) ==
    /\ call.fn = "scrambleWordSwap"
    /\ ~result.done
    /\ shuffled \in ShuffleOutcomes(call.word)
    /\ result' = [result EXCEPT !.done = TRUE, !.word = scrambleWord(call.word, shuffled)]
    /\ UNCHANGED << hook, localAttempts, board, guessLimit, otherRooms, call, game_rooms, game_players, lobbyStep >>

scrambleWordRetry(shuffled) ==
    /\ call.fn = "scrambleWordRetry"
    /\ ~result.done
    /\ shuffled \in ShuffleOutcomes(call.word)
    /\ IF scrambleWordAgain(call.word, shuffled)
       THEN /\ result.depth < MaxDepth
            /\ result' = [result EXCEPT !.depth = @ + 1]
       ELSE result' = [result EXCEPT !.done = TRUE, !.word = shuffled]
    /\ UNCHANGED << hook, localAttempts, board, guessLimit, otherRooms, call, game_rooms, game_players, lobbyStep >>

\* the score functions: elapsed times from a clock one second behind up to
\* beyond the round duration, durations from 1, base points from 0
ElapsedInputs == (0 - 1)..MaxElapsed

callCalculatePoints(fn, isCorrect, timeElapsed, maxTime, basePoints) ==
    /\ call = NoCall
    /\ call' = [NoCall EXCEPT !.fn = fn, !.isCorrect = isCorrect, !.timeElapsed = timeElapsed,
                              !.maxTime = maxTime, !.basePoints = basePoints]
    /\ result' = NoResult
    /\ UNCHANGED << hook, localAttempts, board, guessLimit, otherRooms, game_rooms, game_players, lobbyStep >>

calculatePointsReturns ==
    /\ call.fn = "calculatePoints"
    /\ ~result.done
    /\ result' = [result EXCEPT
                    !.done = TRUE,
                    !.points = calculatePoints(call.isCorrect, call.timeElapsed,
                                               call.maxTime, call.basePoints)]
    /\ UNCHANGED << hook, localAttempts, board, guessLimit, otherRooms, call, game_rooms, game_players, lobbyStep >>

guessPointsReturns ==
    /\ call.fn = "guessPoints"
    /\ ~result.done
    /\ result' = [result EXCEPT
                    !.done = TRUE,
                    !.points = guessPoints(call.isCorrect, call.timeElapsed, call.maxTime)]
    /\ UNCHANGED << hook, localAttempts, board, guessLimit, otherRooms, call, game_rooms, game_players, lobbyStep >>

\* the caller has the value; the next call may come
returned ==
    /\ result.done
    /\ call' = NoCall
    /\ result' = NoResult
    /\ UNCHANGED << hook, localAttempts, board, guessLimit, otherRooms, game_rooms, game_players, lobbyStep >>

NextScramble ==
    \/ \E fn \in {"scrambleWordSwap", "scrambleWordRetry"}, word \in ScrambleInputs :
          callScrambleWord(fn, word)
    \/ \E shuffled \in UNION {ShuffleOutcomes(w) : w \in ScrambleInputs} : scrambleWordSwap(shuffled)
    \/ \E shuffled \in UNION {ShuffleOutcomes(w) : w \in ScrambleInputs} : scrambleWordRetry(shuffled)
    \/ returned

SpecScramble == NoRoomYet /\ [][NextScramble]_vars

NextPoints ==
    \/ \E isCorrect \in BOOLEAN, timeElapsed \in ElapsedInputs,
          maxTime \in 1..MaxTime, basePoints \in 0..MaxBase :
          callCalculatePoints("calculatePoints", isCorrect, timeElapsed, maxTime, basePoints)
    \/ \E isCorrect \in BOOLEAN, timeElapsed \in ElapsedInputs, maxTime \in 1..MaxTime :
          callCalculatePoints("guessPoints", isCorrect, timeElapsed, maxTime, 0)
    \/ calculatePointsReturns
    \/ guessPointsReturns
    \/ returned

SpecPoints == NoRoomYet /\ [][NextPoints]_vars

\* a game of two clients and one round, guesses entered in the letter boxes
Attempts ==
    \E c \in PlayerIds, guess \in GuessInputs, timeElapsed \in ElapsedChoices :
        handleGuessSubmit(c, guess, timeElapsed)

NextAttempts == Deliveries \/ Starts \/ Words \/ Attempts \/ Timeouts \/ Finishes

SpecAttempts == InRoomLimit({2}, GuessRounds, AttemptLimit) /\ [][NextAttempts]_vars

\* the waiting room with the players chatting
Chats == \E c \in PlayerIds : sendChatMessage(c)

NextChat == NextLobby \/ Chats

SpecChat == Init /\ [][NextChat]_vars

\* rooms being created next to the room the model follows, in the hook
\* variant (first disjunct of InitCreate) and in the relational variant
Creates == \E c \in PlayerIds : createRoomCall(c)

RelationalCreates ==
    \/ \E p \in PlayerIds : lobbyCreateRoom(p)
    \/ \E p \in PlayerIds : lobbyCreatePlayer(p)

InitCreate ==
    \/ Init
    \/ /\ room = NullRoom
       /\ settings = Settings(MaxRounds)
       /\ guessLimit = MaxGuesses
       /\ screen = [c \in PlayerIds |-> "away"]
       /\ gameRoom = [c \in PlayerIds |-> NullRoom]
       /\ chat = <<>>
       /\ now = 1
       /\ timeoutMessageSentRef = [c \in PlayerIds |-> {}]
       /\ nextRoundMessageSentRef = [c \in PlayerIds |-> {}]
       /\ timers = [c \in PlayerIds |-> {}]
       /\ leaveHost = [c \in PlayerIds |-> Undefined]
       /\ trace = [rounds |-> <<0>>, given |-> [r \in Rounds |-> 0], advances |-> 0]
       /\ localAttempts = [c \in PlayerIds |-> {}]
       /\ otherRooms = <<>>
       /\ call = NoCall
       /\ result = NoResult
       /\ NoBoard
       /\ game_rooms = "none"
       /\ game_players = {}
       /\ lobbyStep = [p \in PlayerIds |-> "lobby"]

NextCreate == NextLobby \/ Creates \/ Relational \/ RelationalCreates

SpecCreate == InitCreate /\ [][NextCreate]_vars

\* the end-to-end scenario: host 1 and client 2 in a room whose rounds last
\* 30 seconds; every guess is entered 5 seconds into the round, so that no
\* countdown expires
InitScenario ==
    /\ room = JoinedRoom({2})
    /\ settings = [Settings(MaxRounds) EXCEPT !.roundDuration = 30]
    /\ guessLimit = AttemptLimit
    /\ screen = [c \in PlayerIds |-> IF c \in {1, 2} THEN "game" ELSE "away"]
    /\ gameRoom = [c \in PlayerIds |-> IF c \in {1, 2} THEN room ELSE NullRoom]
    /\ InitLocal

EarlyGuesses == \E c \in PlayerIds, guess \in GuessInputs : submitGuess(c, guess, 5)

NextScenario == Deliveries \/ Starts \/ Words \/ EarlyGuesses \/ Finishes \/ Advances

SpecScenario == InitScenario /\ [][NextScenario]_vars

NextDuel == Deliveries \/ Starts \/ Words \/ Guesses \/ Timeouts \/ Finishes \/ Advances

\* a game of two clients and two rounds with guesses and countdowns
SpecDuel == InRoom({2}, DuelRounds) /\ [][NextDuel]_vars

(***************************************************************************)
(* Vocabulary of the claims.                                               *)
(***************************************************************************)
Score(r, p) == r.players[p].score

\* the step pushes a chat message; Pushed is that message
Pushes == Len(chat') = Len(chat) + 1

Pushed == chat'[Len(chat')]

\* how often the store's currentRound went from r to r + 1
Increments(r) ==
    Cardinality({ i \in 1..(Len(trace.rounds) - 1) :
                    trace.rounds[i] = r /\ trace.rounds[i + 1] = r + 1 })

TypeOK ==
    /\ room.status \in {"none", "waiting", "playing", "finished"}
    /\ room.currentRound \in 0..MaxRounds
    /\ room.currentWordGiver \in PlayerIds \cup {Undefined}
    /\ room.roundWinner \in PlayerIds \cup {Undefined}
    /\ \A c \in PlayerIds : screen[c] \in {"away", "joining", "game", "left"} \cup InLobby \cup Leaving
    /\ \A c \in PlayerIds : timeoutMessageSentRef[c] \subseteq Rounds
    /\ \A c \in PlayerIds : nextRoundMessageSentRef[c] \subseteq Rounds

(***************************************************************************)
(* C1.  Round advancement is exactly-once under a timeout race: however    *)
(* many clients call endRound(false) for a round r and then run their      *)
(* delayed advance, the endRound writes for round r raise the word-giver's *)
(* score by exactly 50 in total, and the store's currentRound goes from r  *)
(* to r + 1 exactly once.                                                  *)
(***************************************************************************)
C1_TimeoutExactlyOnce ==
    \A r \in Rounds :
        /\ trace.given[r] \in {0, PointsForWordGiver}
        /\ Increments(r) <= 1

(***************************************************************************)
(* C2.  At most one advancement per round, whatever the trigger: the       *)
(* store's currentRound goes from r to r + 1 at most once for every r, and *)
(* it never skips a round number when it grows.                            *)
(***************************************************************************)
C2_AtMostOneAdvance ==
    /\ \A r \in 0..MaxRounds : Increments(r) <= 1
    /\ \A i \in 1..(Len(trace.rounds) - 1) :
          trace.rounds[i + 1] > trace.rounds[i] => trace.rounds[i + 1] = trace.rounds[i] + 1

(***************************************************************************)
(* C3.  First-correct-guess-wins: a correct guess that arrives when the    *)
(* store already records a found word is logged in the guess list and in   *)
(* the chat log, but changes no player's score, does not change            *)
(* roundWinner, and its Guess record carries 0 points.                     *)
(***************************************************************************)
C3_SecondCorrectGuessAwardsNothing ==
    [][ (room.hasFoundWord /\ Pushes /\ Pushed.text \in {"found", "also"})
        => /\ \A p \in PlayerIds : Score(room', p) = Score(room, p)
           /\ room'.roundWinner = room.roundWinner
           /\ room'.guesses # <<>>
           /\ room'.guesses[Len(room'.guesses)].isCorrect
           /\ room'.guesses[Len(room'.guesses)].points = 0 ]_vars

(***************************************************************************)
(* C4.  In every interleaving of submitGuess calls, once the store records *)
(* a found word for the round no later step of that round writes           *)
(* roundWinner again or credits a guesser: roundWinner and the score of    *)
(* every player other than the word-giver stay as they are.                *)
(***************************************************************************)
C4_OneWinnerPerRound ==
    [][ (room.hasFoundWord /\ room'.currentRound = room.currentRound)
        => /\ room'.roundWinner = room.roundWinner
           /\ \A p \in PlayerIds :
                p # room.currentWordGiver => Score(room', p) = Score(room, p) ]_vars

(***************************************************************************)
(* C5.  With totalRounds = N, when status has become finished exactly N    *)
(* advance writes (nextRound or finish) have been made and currentRound    *)
(* has taken the values 1..N, each once, in increasing order.              *)
(***************************************************************************)
C5_ExactlyNAdvances ==
    room.status = "finished"
    => /\ trace.advances = settings.totalRounds
       /\ trace.rounds = [i \in 1..(settings.totalRounds + 1) |-> i - 1]

(***************************************************************************)
(* C6.  While status is playing, currentRound never decreases from one     *)
(* state to the next and never exceeds totalRounds.                        *)
(***************************************************************************)
C6_RoundMonotone ==
    /\ [](room.status = "playing" => room.currentRound <= settings.totalRounds)
    /\ [][ (room.status = "playing" /\ room'.status = "playing")
           => room'.currentRound >= room.currentRound ]_vars

(***************************************************************************)
(* C7.  finished is terminal: once status = finished, no step changes      *)
(* status, any other GameState field, or any player's score.               *)
(***************************************************************************)
C7_FinishedIsTerminal ==
    [][ room.status = "finished" => room' = room ]_vars

(***************************************************************************)
(* C8.  startGame changes shared state only when issued by the host,       *)
(* while the room's status is waiting and the room has at least 2 players. *)
(* (The step of startGame is the one that pushes the game-start message.)  *)
(***************************************************************************)
C8_StartGameGuarded ==
    [][ (Pushes /\ Pushed.text = "start")
        => /\ room.players[Pushed.playerId].isHost
           /\ room.status = "waiting"
           /\ Len(ObjectKeys(room.players)) >= 2 ]_vars

(***************************************************************************)
(* C9.  submitWord changes shared state only when issued by the room's     *)
(* current word-giver, while status = playing and no current word is set.  *)
(* (The step of submitWord is the one that pushes the time-to-guess        *)
(* message.)                                                               *)
(***************************************************************************)
C9_SubmitWordGuarded ==
    [][ (Pushes /\ Pushed.text = "word")
        => /\ room.currentWordGiver = Pushed.playerId
           /\ room.status = "playing"
           /\ room.currentWord = NoWord ]_vars

(***************************************************************************)
(* C10.  submitGuess changes shared state only when issued by a player     *)
(* other than the room's current word-giver while a current word is set.   *)
(* (The step of submitGuess is the one that pushes a correct / wrong       *)
(* message.)                                                               *)
(***************************************************************************)
C10_SubmitGuessGuarded ==
    [][ (Pushes /\ Pushed.type \in {"correct", "wrong"})
        => /\ room.currentWordGiver # Pushed.playerId
           /\ room.currentWord # NoWord ]_vars

(***************************************************************************)
(* C11.  Round timeout: a round whose duration elapses with a word set and *)
(* no correct guess resolves as a miss.  A timeout step changes no score   *)
(* but that of the room's word-giver, and when the store leaves a round    *)
(* that was timed out (by an advance or by finishing) the timeouts of that *)
(* round have raised its word-giver's score by exactly 50 in total.        *)
(***************************************************************************)
C11_TimeoutResolvesAsMiss ==
    [][ /\ (Pushes /\ Pushed.text = "timeout")
           => \A p \in PlayerIds \ {room.currentWordGiver} :
                Score(room', p) = Score(room, p)
        /\ ( /\ room.currentRound \in Rounds
             /\ trace.given[room.currentRound] # 0
             /\ \/ room'.currentRound # room.currentRound
                \/ room.status = "playing" /\ room'.status = "finished" )
           => trace.given[room.currentRound] = PointsForWordGiver ]_vars

(***************************************************************************)
(* C12.  Turn rotation follows the order fixed at game start: the step     *)
(* that starts the game writes the player ids as wordGiverOrder, no later  *)
(* step changes it, and in the store and in every client's copy the        *)
(* word-giver of round k is wordGiverOrder[(k - 1) mod n].                 *)
(***************************************************************************)
RotationOK(g) ==
    g.status \in {"playing", "finished"}
    => /\ g.wordGiverOrder # <<>>
       /\ g.currentRound >= 1
       /\ g.currentWordGiver
            = g.wordGiverOrder[((g.currentRound - 1) % Len(g.wordGiverOrder)) + 1]

C12_RotationFollowsFixedOrder ==
    /\ [](/\ RotationOK(room)
          /\ \A c \in PlayerIds : gameRoom[c] # NullRoom => RotationOK(gameRoom[c]))
    /\ [][ /\ (room.status = "waiting" /\ room'.status = "playing")
              => room'.wordGiverOrder = ObjectKeys(room.players)
           /\ room.wordGiverOrder # <<>>
              => room'.wordGiverOrder = room.wordGiverOrder ]_vars

\* the rotation has wrapped around: a round beyond the number of players
C12_Witness ==
    /\ room.status = "playing"
    /\ room.wordGiverOrder # <<>>
    /\ room.currentRound > Len(room.wordGiverOrder)
    /\ room.currentWordGiver = room.wordGiverOrder[1]

(***************************************************************************)
(* C13.  In every state of an existing room with at least one player,      *)
(* exactly one player has the host flag set and hostId is that player's    *)
(* id, also between the store operations of a leaveRoom under way and      *)
(* under concurrent leaves and joins.                                      *)
(***************************************************************************)
Hosts(r) == { p \in PlayerIds : r.players[p].in /\ r.players[p].isHost }

C13_ExactlyOneHost ==
    (room # NullRoom /\ ObjectKeys(room.players) # <<>>)
    => /\ Cardinality(Hosts(room)) = 1
       /\ room.hostId \in Hosts(room)

(***************************************************************************)
(* C14.  After the players of a room have left so that no player remains   *)
(* (every client that entered has completed leaveRoom and nobody is        *)
(* joining), the room document and the chat log for the room no longer     *)
(* exist.                                                                  *)
(***************************************************************************)
C14_EmptyRoomIsDeleted ==
    (\A c \in PlayerIds : screen[c] \in {"away", "left"} \cup InLobby)
    => (room = NullRoom /\ chat = <<>>)

(***************************************************************************)
(* C15: a room at max capacity rejects a further joinRoom.  Whenever a     *)
(* client in the lobby faces a room whose player count is >= maxPlayers,   *)
(* no step takes that client out of the lobby (its joinRoom resolves null  *)
(* with 'Room is full'), and the step in which a joinRoom is rejected      *)
(* leaves the room document, its settings and the chat log unchanged.      *)
(***************************************************************************)
IsFull(r) == r # NullRoom /\ Len(ObjectKeys(r.players)) >= settings.maxPlayers

C15_FullRoomRejectsJoin ==
    [][\A c \in PlayerIds :
          /\ (screen[c] \in InLobby /\ IsFull(room)) => screen'[c] \in InLobby
          /\ (screen'[c] = "full" /\ screen[c] # "full")
                => /\ IsFull(room)
                   /\ room' = room
                   /\ settings' = settings
                   /\ chat' = chat]_vars

\* a client has been turned away by a room that is still full, with the
\* room's two players in it
C15_Witness ==
    \E c \in PlayerIds :
        /\ screen[c] = "full"
        /\ IsFull(room)
        /\ room.players[c] = NoPlayer
        /\ Len(ObjectKeys(room.players)) = Capacity

(***************************************************************************)
(* C16: joinRoom is idempotent for an existing member.  As claimed, for    *)
(* both variants: a joinRoom by a player who is in the room's player map   *)
(* (hook) or has a row in game_players (relational) returns the room id    *)
(* and leaves the player's record and the rest of the room as they were.   *)
(***************************************************************************)
JoinReturnsRoom(p) == lobbyStep'[p] \in {"room", "waiting", "playing"}

JoinStepOfMember(p) ==
    /\ RowsOf(p) # {}
    /\ lobbyStep[p] \in LobbyScreens \cup {"room", "insert"}
    /\ lobbyStep'[p] # lobbyStep[p]

JoinWriteOfMember(c) ==
    /\ room.players[c].full
    /\ screen[c] = "joining"
    /\ screen'[c] = "game"

C17_ScoresNeverDecrease ==
    /\ [](\A p \in PlayerIds : Score(room, p) >= 0)
    /\ [][\A p \in PlayerIds :
             (room.status = "playing" /\ room'.status \in {"playing", "finished"}
              /\ room.players[p].in /\ room'.players[p].in)
                => Score(room', p) >= Score(room, p)]_vars

(***************************************************************************)
(* C18: deduplication.  Within a round, a guess text (compared without     *)
(* regard to case) of one player is appended to the guess list at most     *)
(* once, and a step that submits a text the player has already in the list *)
(* pushes no chat message and changes no score.                            *)
(***************************************************************************)
SameAttempt(a, b) == a.playerId = b.playerId /\ toLowerCase(a.guess) = toLowerCase(b.guess)

C18_RepeatedGuessIsIgnored ==
    /\ [](\A i, j \in DOMAIN room.guesses :
             i < j => ~SameAttempt(room.guesses[i], room.guesses[j]))
    /\ [][\A i \in DOMAIN room.guesses :
             (Len(room'.guesses) = Len(room.guesses) + 1
              /\ room'.currentRound = room.currentRound
              /\ SameAttempt(room.guesses[i], room'.guesses[Len(room'.guesses)]))
                => FALSE]_vars

(***************************************************************************)
(* C19: for every word of length > 1 and every outcome of the shuffle,     *)
(* what scrambleWord returns is a permutation of the characters of the     *)
(* lowercased word and differs from it, in the swap variant and in the     *)
(* re-shuffling variant.                                                   *)
(***************************************************************************)
Occurrences(word, ch) == Cardinality({i \in DOMAIN word : word[i] = ch})

IsPermutation(v, w) ==
    /\ Len(v) = Len(w)
    /\ \A ch \in Letters : Occurrences(v, ch) = Occurrences(w, ch)

C19_ScrambleIsDifferentPermutation ==
    (call.fn \in {"scrambleWordSwap", "scrambleWordRetry"} /\ Len(call.word) > 1)
    => (result.done
          => /\ IsPermutation(result.word, toLowerCase(call.word))
             /\ result.word # toLowerCase(call.word))

(***************************************************************************)
(* C20: the score function never returns a negative number and returns 0   *)
(* whenever the guess is not correct, whatever the elapsed time (also      *)
(* beyond the round duration), the duration and the base points; for the   *)
(* four-argument calculatePoints and for the score GameBoard computes with *)
(* the two-argument one.                                                   *)
(***************************************************************************)
C20_PointsNeverNegative ==
    (call.fn \in {"calculatePoints", "guessPoints"} /\ result.done)
    => /\ result.points >= 0
       /\ ~call.isCorrect => result.points = 0

\* a correct guess entered after the round duration has elapsed has been
\* scored by the four-argument calculatePoints
C20_Witness ==
    /\ call.fn = "calculatePoints"
    /\ result.done
    /\ call.isCorrect
    /\ call.timeElapsed > call.maxTime
    /\ call.basePoints = MaxBase
    /\ result.points > 0

(***************************************************************************)
(* C21: for a correct guess, with duration and base points fixed, the      *)
(* score does not grow with the elapsed time: what a call has returned is  *)
(* at least the score of every later elapsed time, for the four-argument   *)
(* calculatePoints and for the score computed with the two-argument one.   *)
(***************************************************************************)
LaterElapsed == {t \in ElapsedInputs : t > call.timeElapsed}

ScoreAt(t) ==
    IF call.fn = "calculatePoints"
    THEN calculatePoints(TRUE, t, call.maxTime, call.basePoints)
    ELSE guessPoints(TRUE, t, call.maxTime)

C21_ScoreNonIncreasingInElapsed ==
    (call.fn \in {"calculatePoints", "guessPoints"} /\ call.isCorrect /\ result.done)
    => \A t \in LaterElapsed : result.points >= ScoreAt(t)

\* a correct guess has been scored higher than the same guess is scored at
\* the round duration, and the latter higher than the base points' 0.3
C21_Witness ==
    /\ call.fn = "calculatePoints"
    /\ call.isCorrect
    /\ result.done
    /\ call.timeElapsed < call.maxTime
    /\ call.maxTime \in LaterElapsed
    /\ result.points > ScoreAt(call.maxTime)
    /\ ScoreAt(call.maxTime) = ScoreAt(MaxElapsed)

IsPrefix(s, t) == Len(s) <= Len(t) /\ \A i \in DOMAIN s : s[i] = t[i]

GuessStep == Pushes /\ Pushed.type \in {"correct", "wrong"}

SameRoundAndWord ==
    /\ room' # NullRoom
    /\ room'.currentRound = room.currentRound
    /\ room'.currentWord = room.currentWord
    /\ room'.status = room.status

C23_GuessesAreAppended ==
    /\ [][GuessStep
             => /\ Len(room'.guesses) = Len(room.guesses) + 1
                /\ IsPrefix(room.guesses, room'.guesses)
                /\ (Pushed.type = "correct") = (room'.roundWinner = Pushed.playerId
                                                /\ Score(room', Pushed.playerId)
                                                     > Score(room, Pushed.playerId))]_vars
    /\ [][SameRoundAndWord => IsPrefix(room.guesses, room'.guesses)]_vars

(***************************************************************************)
(* C24: createRoom yields a room whose only player is the host, with host  *)
(* flag true and score 0, hostId that player, status waiting, an empty     *)
(* guess list and the default settings (maxPlayers 8, totalRounds 5), and  *)
(* it modifies no other room.  Relational variant: the room is waiting and *)
(* its only row is the host's, with score 0.                               *)
(***************************************************************************)
SolePlayerIsHost(doc, hostId) ==
    /\ ObjectKeys(doc.players) = <<hostId>>
    /\ doc.players[hostId] = [in |-> TRUE, full |-> TRUE, score |-> 0, isHost |-> TRUE]
    /\ doc.hostId = hostId

C24_CreateRoomYieldsHostOnlyRoom ==
    /\ [][\A c \in PlayerIds :
             (screen[c] \in InLobby /\ Len(otherRooms') = Len(otherRooms) + 1 /\ screen'[c] = "away")
                => LET new == otherRooms'[Len(otherRooms')]
                   IN  /\ SolePlayerIsHost(new.doc, c)
                       /\ new.doc.status = "waiting"
                       /\ new.doc.guesses = <<>>
                       /\ new.doc.currentRound = 0
                       /\ new.settings.maxPlayers = MaxPlayers
                       /\ new.settings.totalRounds = TotalRounds
                       /\ new.doc.id # room.id
                       /\ \A i \in DOMAIN otherRooms :
                             otherRooms'[i] = otherRooms[i] /\ otherRooms[i].doc.id # new.doc.id
                       /\ room' = room
                       /\ settings' = settings
                       /\ chat' = chat]_vars
    /\ [][\A p \in PlayerIds :
             (lobbyStep[p] = "createPlayer" /\ lobbyStep'[p] = "waiting")
                => /\ game_rooms' = "waiting"
                   /\ game_players' = {[player_id |-> p, score |-> 0, is_ready |-> TRUE]}
                   /\ p = HostProfile]_vars

\* another room has been created while the first holds two players
C24_Witness ==
    /\ Len(otherRooms) >= 1
    /\ Len(ObjectKeys(room.players)) = 2

(***************************************************************************)
(* C25: the chat log is append-only.  Every step keeps the messages of the *)
(* log, with their content and order, and at most adds messages behind     *)
(* them; the one exception is the deletion of the whole log by a host's    *)
(* leaveRoom, after it has removed the room.                               *)
(***************************************************************************)
WholeLogDeleted ==
    /\ chat' = <<>>
    /\ \E c \in PlayerIds : screen[c] = "leaveChats" /\ screen'[c] = "left"

C25_ChatIsAppendOnly == [][IsPrefix(chat, chat') \/ WholeLogDeleted]_vars

\* the game had been started, which pushed a message, and the log and the
\* room have been deleted since
C25_Witness ==
    /\ chat = <<>>
    /\ room = NullRoom
    /\ Len(trace.rounds) > 1

(***************************************************************************)
(* A started game under the scheduling the runtime gives: the subscription *)
(* of a mounted client delivers the current document, the countdown        *)
(* interval of a mounted client calls endRound once its local copy shows   *)
(* an expired round, every pending setTimeout callback runs, and a         *)
(* word-giver who is shown the word form submits a word.  Guesses are left *)
(* to the players: the game starts in its first round, in which client 2   *)
(* has found the word, and nobody enters a guess afterwards.               *)
(***************************************************************************)
\* the first round of a game of clients 1 and 2 over MaxRounds rounds:
\* client 1 has started the game and given the word, client 2 has received
\* it and has found it five seconds later (its delayed advance is pending),
\* and client 1 has not been told yet
FoundInRoundOne ==
    \E shuffled \in ShuffleOutcomes(<<"A", "b">>) :
        LET joined  == JoinedRoom({2})
            started == startGameUpdates(joined, joined, 2)
            worded  == submitWordUpdates(started, <<"A", "b">>, shuffled, 3)
            points  == calculatePoints(TRUE, 5, RoundDuration, PointsForCorrect)
            found   == submitGuessUpdates(worded, worded, 2, <<"a", "B">>, TRUE, points, 4)
        IN  /\ room = found
            /\ gameRoom = [c \in PlayerIds |->
                               IF c = 1 THEN worded ELSE IF c = 2 THEN found ELSE NullRoom]
            /\ chat = << Message("system", 1, "start"), Message("system", 1, "word"),
                         Message("correct", 2, "found") >>
            /\ now = 4
            /\ timers = [c \in PlayerIds |-> IF c = 2 THEN {Timer(worded)} ELSE {}]
            /\ trace = [rounds |-> <<0, 1>>, given |-> [r \in Rounds |-> 0], advances |-> 0]

InitLive ==
    /\ FoundInRoundOne
    /\ settings = Settings(MaxRounds)
    /\ guessLimit = MaxGuesses
    /\ screen = [c \in PlayerIds |-> IF c \in {1, 2} THEN "game" ELSE "away"]
    /\ Idle
    /\ localAttempts = [c \in PlayerIds |-> {}]
    /\ timeoutMessageSentRef = [c \in PlayerIds |-> {}]
    /\ nextRoundMessageSentRef = [c \in PlayerIds |-> {}]
    /\ leaveHost = [c \in PlayerIds |-> Undefined]

NextLive == Deliveries \/ Words \/ Timeouts \/ Finishes \/ Advances

TimerValues == [round : 0..MaxRounds, next : 0..NumPlayers]

delayedAdvance(c, timer) == finishGame(c, timer) \/ nextRound(c, timer)

givesWord(c) ==
    \E word \in WordInputs : \E shuffled \in ShuffleOutcomes(word) : submitWord(c, word, shuffled)

Scheduling ==
    /\ \A c \in PlayerIds : WF_vars(onValue(c))
    /\ \A c \in PlayerIds : WF_vars(endRound(c))
    /\ \A c \in PlayerIds : \A timer \in TimerValues : WF_vars(delayedAdvance(c, timer))
    /\ \A c \in PlayerIds : WF_vars(givesWord(c))

SpecLive == InitLive /\ [][NextLive]_vars /\ Scheduling

(***************************************************************************)
(* C26: liveness.  Once the game is started it eventually becomes          *)
(* finished, when every notification is delivered, every pending timer     *)
(* fires and every word-giver submits a word.                              *)
(***************************************************************************)
C26_StartedGameFinishes == (room.status = "playing") ~> (room.status = "finished")

(***************************************************************************)
(* C27: the secret word and its scrambled form are both unset or both set, *)
(* in the store and in every client's local copy, in every state.  The     *)
(* step that sets the word sets the scramble, stamps roundStartTime,       *)
(* empties the guess list and clears the found-flag with it; the step that *)
(* clears the word clears the scramble with it.                            *)
(***************************************************************************)
WordAndScrambleTogether(g) == (g.currentWord = NoWord) <=> (g.scrambledWord = NoWord)

Observable == {room} \cup {gameRoom[c] : c \in PlayerIds}

WordIsSet == room.currentWord = NoWord /\ room'.currentWord # NoWord

WordIsCleared == room.currentWord # NoWord /\ room'.currentWord = NoWord

C27_WordAndScrambleTogether ==
    /\ [](\A g \in Observable : WordAndScrambleTogether(g))
    /\ [][WordIsSet => /\ room'.scrambledWord # NoWord
                       /\ room'.roundStartTime = now'
                       /\ room'.guesses = <<>>
                       /\ ~room'.hasFoundWord]_vars
    /\ [][WordIsCleared => room'.scrambledWord = NoWord]_vars

\* the word of the second round is in the store, after an advance has
\* cleared the word of the first, and a client still holds a copy without it
C27_Witness ==
    /\ room.currentRound = 2
    /\ room.currentWord # NoWord
    /\ room.scrambledWord # NoWord
    /\ trace.advances >= 1
    /\ \E c \in PlayerIds : gameRoom[c] # NullRoom /\ gameRoom[c].currentWord = NoWord

(***************************************************************************)
(* C28: in every state, in the store and in every client's local copy,     *)
(* hasFoundWord = true implies that roundEndTime and roundWinner are set.  *)
(* The step that sets the flag sets the winner and the end time with it.   *)
(***************************************************************************)
FoundHasWinnerAndEnd(g) ==
    g.hasFoundWord => (g.roundEndTime # Undefined /\ g.roundWinner # Undefined)

FoundIsSet == ~room.hasFoundWord /\ room'.hasFoundWord

C28_FoundImpliesEndTime ==
    /\ [](\A g \in Observable : FoundHasWinnerAndEnd(g))
    /\ [][FoundIsSet => (room'.roundEndTime = now' /\ room'.roundWinner \in PlayerIds)]_vars

\* a word has been found in the second round, after the advance out of the
\* first round has cleared the three fields
C28_Witness ==
    /\ room.hasFoundWord
    /\ room.currentRound = 2
    /\ room.roundWinner # Undefined
    /\ trace.advances >= 1

(***************************************************************************)
(* C29: while the store's room is playing and has no current word, the     *)
(* round is clean: roundWinner and roundEndTime are unset, hasFoundWord is *)
(* false and the guess list is empty.                                      *)
(***************************************************************************)
AwaitingWord(g) == g.status = "playing" /\ g.currentWord = NoWord

CleanRound(g) ==
    /\ g.roundWinner = Undefined
    /\ g.roundEndTime = Undefined
    /\ ~g.hasFoundWord
    /\ g.guesses = <<>>

C29_AwaitingWordIsClean == AwaitingWord(room) => CleanRound(room)

(***************************************************************************)
(* C30: the guess list is scoped to the current round.  The step that sets *)
(* the word and the step that advances the round leave the list empty, and *)
(* a record enters the list only when it was submitted against the word of *)
(* the store's current round, by a client whose copy shows that round and  *)
(* that word: no record submitted in an earlier round is in the list.      *)
(***************************************************************************)
RoundIsAdvanced == room'.currentRound # room.currentRound

\* the copy of the room the guess of this step was computed from
SubmittedAgainst == gameRoom[Pushed.playerId]

C30_GuessesScopedToRound ==
    /\ [][(WordIsSet \/ RoundIsAdvanced) => room'.guesses = <<>>]_vars
    /\ [][GuessStep => /\ SubmittedAgainst.currentRound = room.currentRound
                       /\ SubmittedAgainst.currentWord = room.currentWord]_vars

(***************************************************************************)
(* C31: the re-shuffling scrambleWord terminates for every non-empty word. *)
(* While a call is under way some outcome of the shuffle lets it return,   *)
(* so that the retries end, also for a word whose characters are all the   *)
(* same; for a word of length 1 it returns the (lowercased) input.         *)
(***************************************************************************)
RetryUnderWay == call.fn = "scrambleWordRetry" /\ ~result.done

CanReturn ==
    \E shuffled \in ShuffleOutcomes(call.word) : ~scrambleWordAgain(call.word, shuffled)

C31_ScrambleRetryTerminates ==
    /\ RetryUnderWay => CanReturn
    /\ (call.fn = "scrambleWordRetry" /\ result.done /\ Len(call.word) = 1)
          => result.word = toLowerCase(call.word)

(***************************************************************************)
(* C32.  The per-client keys.  A client's keys are never taken back while  *)
(* its page stays loaded.  The step in which client c's endRound awards    *)
(* the consolation and schedules the advance for the round r of its copy   *)
(* happens only while c's timeout key of r is unset, and sets it; the step *)
(* in which client c's nextRound writes the advance to round r + 1 happens *)
(* only while c's start key of r + 1 is unset, and sets it.  So neither    *)
(* happens twice for one client and one round, however often the countdown *)
(* effect calls endRound again.                                            *)
(***************************************************************************)
KeysAreKept ==
    \A c \in PlayerIds :
        /\ timeoutMessageSentRef[c] \subseteq timeoutMessageSentRef'[c]
        /\ nextRoundMessageSentRef[c] \subseteq nextRoundMessageSentRef'[c]

TimeoutStep == Pushes /\ Pushed.type = "system" /\ Pushed.text = "timeout"

AdvanceStep == Pushes /\ Pushed.type = "system" /\ Pushed.text = "round"

TimeoutOnce ==
    LET c == Pushed.playerId
        r == gameRoom[c].currentRound
    IN  /\ r \notin timeoutMessageSentRef[c]
        /\ r \in timeoutMessageSentRef'[c]

AdvanceOnce ==
    LET c == Pushed.playerId
        r == room'.currentRound
    IN  /\ r \notin nextRoundMessageSentRef[c]
        /\ r \in nextRoundMessageSentRef'[c]

C32_PerClientKeys ==
    /\ [][KeysAreKept]_vars
    /\ [][TimeoutStep => TimeoutOnce]_vars
    /\ [][AdvanceStep => AdvanceOnce]_vars

\* a client has handled the timeout of round 1 and its countdown effect, run
\* again on the same copy, would call endRound(false) once more
C32_Witness ==
    \E c \in PlayerIds :
        /\ screen[c] = "game"
        /\ gameRoom[c] # NullRoom
        /\ gameRoom[c].currentRound = 1
        /\ countdownExpired(gameRoom[c])
        /\ 1 \in timeoutMessageSentRef[c]

(***************************************************************************)
(* C33.  Every member of a playing room is in the word-giver rotation:     *)
(* joinRoom adds a player only to a waiting room, so once startGame has    *)
(* fixed wordGiverOrder the players of the room are among its entries.     *)
(***************************************************************************)
InRotation(r, p) == \E i \in DOMAIN r.wordGiverOrder : r.wordGiverOrder[i] = p

C33_MembersOfPlayingRoomRotate ==
    room.status = "playing" =>
        \A p \in PlayerIds : room.players[p].in => InRotation(room, p)

(***************************************************************************)
(* C34.  A delayed advance scheduled for round r that fires when the store *)
(* is already in round r + 1 leaves round r + 1 as it is: its word, its    *)
(* scramble, its guess list, its winner, its found-flag and its start time *)
(* are unchanged by the step.                                              *)
(***************************************************************************)
LateAdvance == AdvanceStep /\ room'.currentRound = room.currentRound

RoundStateKept ==
    /\ room'.currentWord = room.currentWord
    /\ room'.scrambledWord = room.scrambledWord
    /\ room'.guesses = room.guesses
    /\ room'.roundWinner = room.roundWinner
    /\ room'.hasFoundWord = room.hasFoundWord
    /\ room'.roundStartTime = room.roundStartTime

C34_LateAdvanceLeavesRound == [][LateAdvance => RoundStateKept]_vars

(***************************************************************************)
(* C35.  The two ways a round resolves exclude each other.  The step in    *)
(* which a countdown expiry awards the word giver its consolation for a    *)
(* round does not happen while the store shows that round as found by a    *)
(* guesser, and the step in which a guess is credited as correct does not  *)
(* happen for a round whose consolation has been awarded.                  *)
(***************************************************************************)
CreditStep == Pushes /\ Pushed.type = "correct"

FoundInStore(r) == room.currentRound = r /\ room.hasFoundWord /\ room.roundWinner # Undefined

ConsolationGiven(r) == r \in Rounds /\ trace.given[r] > 0

C35_FoundAndTimeoutExclusive ==
    /\ [][TimeoutStep => ~FoundInStore(SubmittedAgainst.currentRound)]_vars
    /\ [][CreditStep => ~ConsolationGiven(SubmittedAgainst.currentRound)]_vars

(***************************************************************************)
(* C36.  A room never holds more players than settings.maxPlayers, also    *)
(* when several joinRoom calls have read the same snapshot.                *)
(***************************************************************************)
C36_NeverMoreThanMaxPlayers ==
    room # NullRoom => Len(ObjectKeys(room.players)) <= settings.maxPlayers

(***************************************************************************)
(* C37.  While the room is playing, currentWordGiver is the id of a player *)
(* who is in the room's player map.                                        *)
(***************************************************************************)
C37_WordGiverIsMember ==
    room.status = "playing" =>
        /\ room.currentWordGiver \in PlayerIds
        /\ room.players[room.currentWordGiver].in

(***************************************************************************)
(* C38.  The points calculatePoints returns for a correct guess are at     *)
(* most the base points and at least round(0.3 * basePoints), for every    *)
(* elapsed time submitGuess can pass, a negative one included (the         *)
(* guesser's clock behind the clock that stamped roundStartTime).          *)
(***************************************************************************)
LowestPoints(basePoints) == (2 * 3 * basePoints + 10) \div 20

C38_PointsWithinBaseRange ==
    (call.fn = "calculatePoints" /\ call.isCorrect /\ result.done)
    => /\ result.points <= call.basePoints
       /\ result.points >= LowestPoints(call.basePoints)

(***************************************************************************)
(* C39.  A player whose leaveRoom has completed has no entry in the room's *)
(* player map, in that state and in every later one: no write of another   *)
(* client brings an entry at players/<p> back.                             *)
(***************************************************************************)
HasLeft(p) == screen[p] = "left"

C39_LeaverHasNoEntry ==
    \A p \in PlayerIds : HasLeft(p) => ~room.players[p].in

(***************************************************************************)
(* C40.  The relational variant: game_rounds holds at most one row per     *)
(* round number, and a client whose GameBoard has loaded the room displays *)
(* the row of the room's current round, so every such client displays the  *)
(* same row and the same word_giver_id.                                    *)
(***************************************************************************)
OneRowPerRound ==
    \A r1, r2 \in game_rounds : r1.round_number = r2.round_number => r1 = r2

Displays(p) ==
    /\ currentRound[p] \in game_rounds
    /\ currentRound[p].round_number = roomData[p].current_round

C40_OneRoundRecordShown ==
    /\ OneRowPerRound
    /\ \A p \in PlayerIds : (lobbyStep[p] = "playing" /\ roomData[p].loaded) => Displays(p)

====
